---- MODULE Spec2Model ----
(***************************************************************************)
(* cdk-insights: the Resource Finding Engine.                              *)
(*                                                                         *)
(*   SpecParse  the response parsing of sendPromptToAI, applied to model   *)
(*              texts given as token sequences                             *)
(*   Spec       runAnalysis (src/index.ts and its earlier variant) around  *)
(*              analyzeMultipleResources / analyzeSingleResource /         *)
(*              sendPromptToAI of the AI analysis module                   *)
(*   SpecMain   the CLI entry point main with analyzeWithAI                *)
(*   SpecRules  one call of analyzeTemplate with its rule catalog          *)
(*   SpecCache  calls of analyzeSingleResource with varying modes          *)
(*   SpecFair   Spec with the fairness of answered requests and timers     *)
(***************************************************************************)
EXTENDS Integers, Sequences, FiniteSets, TLC

VARIABLES
    \* ---- response parsing ----
    rawText,          \* the model's outputText, a sequence of tokens
    completeMessage,  \* result of the parsing in sendPromptToAI
    extracted,        \* result of extractJsonFromResponse
    ppc,              \* "text" | "parsed"
    \* ---- runAnalysis and the AI analysis module ----
    variant,          \* "index": src/index.ts, "early": its earlier variant
    licenseKey,       \* whether the environment supplies a licence key
    selectedServices, \* the --selected-services argument
    stack,            \* what cdk synth produces when it succeeds
    rpc,              \* position of runAnalysis
    template,         \* the synthesized template (ordered name/resource entries)
    staticAnalysisFindings,
    filteredResources,
    idx,              \* position of the loop of analyzeMultipleResources
    results,          \* results of analyzeMultipleResources (ordered entries)
    CACHE,            \* the module-level Map of part_010 (ordered entries)
    retries,          \* local of sendPromptToAI
    delay,            \* local of sendPromptToAI
    callState,        \* the current/last sendPromptToAI call
    attempts,         \* history: the remote's answers to the sends of that call
    waits,            \* history: the backoff waits of that call
    sendsFor,         \* history: remote invocations per resource hash
    callsFor,         \* history: analyzeSingleResource calls per resource hash
    okFor,            \* history: hashes for which a call has succeeded
    hits,             \* history: names answered from the cache
    failed,           \* history: names whose AI sub-pipeline failed
    writes,           \* history: the report files written
    exitCode,         \* -1 while running, then the process exit code
    \* ---- main and analyzeWithAI ----
    ENABLE_AI,            \* the --enable-ai flag
    userPreferredModel,   \* the --model argument or its default
    analyzeOnlyResources, \* the --analyze-only argument
    synthOutput,          \* what cdk synth writes when it succeeds
    mpc,                  \* position of main
    accessOutcome,        \* history: how checkBedrockAccess ended
    synthOutcome,         \* history: how the synth step ended
    cloudFormation,       \* the parsed template
    staticRuns,           \* history: number of runs of analyzeStack
    issues,
    optimizations,
    foundationModels,     \* history: what ListFoundationModels answered
    modelId,
    aiIdx,                \* position of the loop of analyzeWithAI
    allRecommendations,
    totalInputTokens,
    totalOutputTokens,
    aiResponse,           \* what analyzeWithAI returned
    invoked,              \* history: the resources sent to the model
    answered,             \* history: what the answers to them reported
    reports,              \* history: the report files written
    mainExit,             \* -1 while running, then the process exit code
    \* ---- analyzeTemplate on its own ----
    ruleTemplate,         \* the cloudformationTemplate argument
    ruleServices,         \* the selectedServices argument
    ruleChecks,           \* checks: the rules selected, in the order they run
    ruleIdx,              \* position of checks.forEach
    ruleFindings,         \* findings (ordered entries)
    qpc,                  \* position of analyzeTemplate
    \* ---- calls of analyzeSingleResource with varying modes ----
    cacheCalls,           \* history: the calls made and how each was answered
    storedModes           \* history: the modes each CACHE entry was computed for

parseVars == <<rawText, completeMessage, extracted, ppc>>

runVars == <<variant, licenseKey, selectedServices, stack, rpc, template,
             staticAnalysisFindings, filteredResources, idx, results, CACHE,
             retries, delay, callState, attempts, waits, sendsFor, callsFor,
             okFor, hits, failed, writes, exitCode>>

mainVars == <<ENABLE_AI, userPreferredModel, analyzeOnlyResources, synthOutput, mpc,
              accessOutcome, synthOutcome, cloudFormation, staticRuns, issues,
              optimizations, foundationModels, modelId, aiIdx, allRecommendations,
              totalInputTokens, totalOutputTokens, aiResponse, invoked, answered,
              reports, mainExit>>

rulesVars == <<ruleTemplate, ruleServices, ruleChecks, ruleIdx, ruleFindings, qpc>>

cacheVars == <<cacheCalls, storedModes>>

vars == <<parseVars, runVars, mainVars, rulesVars, cacheVars>>

(***************************************************************************)
(* Texts.  A text is a sequence of tokens; every token stands for a run of *)
(* characters of the real string:                                          *)
(*   "fence" a triple-backtick fence      "json"  a language tag           *)
(*   "nl"    white space (a newline)      "p"     a word of prose          *)
(*   "{" "}" an object's braces (its members are not modelled)             *)
(*   "[" "]" an array's brackets                                           *)
(***************************************************************************)
FENCE == "fence"
TAG == "json"
NL == "nl"
PROSE == "p"

BodyTokens == {"{", "}", "[", "]", PROSE}

MaxBodyLen == 4

RECURSIVE SeqsUpTo(_, _)
SeqsUpTo(S, n) ==
    IF n = 0 THEN {<<>>}
    ELSE LET shorter == SeqsUpTo(S, n - 1)
         IN  shorter \cup {Append(s, t) : s \in {q \in shorter : Len(q) = n - 1}, t \in S}

Bodies == SeqsUpTo(BodyTokens, MaxBodyLen)

\* The raw shapes a model answers with: optional prose, an optional opening
\* fence with an optional language tag, a body, an optional closing fence,
\* optional prose.
Texts ==
    { pre \o open \o ws \o body \o ws \o close \o post :
        pre \in {<<>>, <<PROSE>>},
        open \in {<<>>, <<FENCE>>, <<FENCE, TAG>>},
        ws \in {<<>>, <<NL>>},
        body \in Bodies,
        close \in {<<>>, <<FENCE>>},
        post \in {<<>>, <<PROSE>>} }

\* JavaScript values that are not JSON texts
NULL == <<"null">>
UNDEFINED == <<"undefined">>
EMPTYSTRING == <<"empty">>

IndexOf(s, t) ==
    IF \E i \in 1..Len(s) : s[i] = t
    THEN CHOOSE i \in 1..Len(s) : s[i] = t /\ \A j \in 1..(i - 1) : s[j] # t
    ELSE 0

LastIndexOf(s, t) ==
    IF \E i \in 1..Len(s) : s[i] = t
    THEN CHOOSE i \in 1..Len(s) : s[i] = t /\ \A j \in (i + 1)..Len(s) : s[j] # t
    ELSE 0

\* String.prototype.split on the fence
RECURSIVE Split(_, _)
Split(s, sep) ==
    LET i == IndexOf(s, sep)
    IN  IF i = 0 THEN <<s>>
        ELSE <<SubSeq(s, 1, i - 1)>> \o Split(SubSeq(s, i + 1, Len(s)), sep)

\* String.prototype.trim()
RECURSIVE Trim(_)
Trim(s) ==
    IF s = <<>> THEN s
    ELSE IF Head(s) = NL THEN Trim(Tail(s))
    ELSE IF s[Len(s)] = NL THEN Trim(SubSeq(s, 1, Len(s) - 1))
    ELSE s

\* White space between JSON tokens is insignificant.
StripWs(s) == SelectSeq(s, LAMBDA t : t # NL)

\* The JSON grammar over tokens: value ::= { } | [ ] | [ value ]
RECURSIVE JsonValid(_)
JsonValid(s) ==
    \/ s = <<"{", "}">>
    \/ /\ Len(s) >= 2
       /\ s[1] = "["
       /\ s[Len(s)] = "]"
       /\ (Len(s) = 2 \/ JsonValid(SubSeq(s, 2, Len(s) - 1)))

\* JSON.parse: the value (its canonical token sequence), or a SyntaxError
JsonParses(s) == JsonValid(StripWs(s))
JsonValue(s) == StripWs(s)

IsArray(v) == Len(v) >= 2 /\ v[1] = "[" /\ v[Len(v)] = "]"
IsObject(v) == v = <<"{", "}">>
FirstElement(v) == IF Len(v) = 2 THEN UNDEFINED ELSE SubSeq(v, 2, Len(v) - 1)
Truthy(v) == v \notin {NULL, UNDEFINED, EMPTYSTRING}

\* extractJsonFromMarkdown: the trimmed text between the first two fences,
\* parsed; null when there are fewer than two fences or it does not parse.
extractJsonFromMarkdown(response) ==
    LET parts == Split(response, FENCE)
    IN  IF Len(parts) < 3 THEN NULL
        ELSE LET jsonString == Trim(parts[2])
             IN  IF JsonParses(jsonString) THEN JsonValue(jsonString) ELSE NULL

\* extractJsonFromResponse: the substring from the first '{' to the last '}',
\* parsed; null when a brace is missing or the substring does not parse.
\* (String.prototype.substring swaps its arguments when start > end.)
extractJsonFromResponse(responseText) ==
    LET jsonStart == IndexOf(responseText, "{")
        jsonEnd == LastIndexOf(responseText, "}")
        jsonString == IF jsonStart <= jsonEnd
                      THEN SubSeq(responseText, jsonStart, jsonEnd)
                      ELSE SubSeq(responseText, jsonEnd + 1, jsonStart - 1)
    IN  IF jsonStart = 0 \/ jsonEnd = 0 THEN NULL
        ELSE IF JsonParses(jsonString) THEN JsonValue(jsonString) ELSE NULL

\* The destructuring  const [completeMessage] = extractJsonFromMarkdown(..) || ''
\* an array yields its first element, the empty string yields undefined,
\* and any other value is not iterable (TypeError).
DestructureFirst(v) ==
    LET w == IF Truthy(v) THEN v ELSE EMPTYSTRING
    IN  IF w = EMPTYSTRING THEN [threw |-> FALSE, value |-> UNDEFINED]
        ELSE IF IsArray(w) THEN [threw |-> FALSE, value |-> FirstElement(w)]
        ELSE [threw |-> TRUE, value |-> UNDEFINED]

\* The body of the try block of sendPromptToAI after the send: the value
\* returned to the caller, or threw = TRUE when an Error is raised.
ParseResponse(outputText) ==
    LET first == DestructureFirst(extractJsonFromMarkdown(outputText))
    IN  IF first.threw \/ ~Truthy(first.value)
        THEN [threw |-> TRUE, value |-> UNDEFINED]
        ELSE [threw |-> FALSE, value |-> first.value]

(***************************************************************************)
(* JavaScript objects keep insertion order: an object (or Map) is a        *)
(* sequence of entries [key, value].                                       *)
(***************************************************************************)
Has(obj, k) == \E i \in 1..Len(obj) : obj[i].key = k
Get(obj, k) == obj[CHOOSE i \in 1..Len(obj) : obj[i].key = k].value
Put(obj, k, v) ==
    IF Has(obj, k)
    THEN [i \in 1..Len(obj) |-> IF obj[i].key = k THEN [key |-> k, value |-> v] ELSE obj[i]]
    ELSE Append(obj, [key |-> k, value |-> v])
Keys(obj) == [i \in 1..Len(obj) |-> obj[i].key]
Range(seq) == {seq[i] : i \in 1..Len(seq)}

(***************************************************************************)
(* Resources.  Type is the list of the '::'-separated parts of the type    *)
(* string; Properties is the property bag in declaration order.            *)
(***************************************************************************)
S3Bucket == <<"AWS", "S3", "Bucket">>
LambdaFunction == <<"AWS", "Lambda", "Function">>
CloudTrailTrail == <<"AWS", "CloudTrail", "Trail">>

Prop(k, v) == [key |-> k, value |-> v]

BucketBare == [Type |-> S3Bucket, Properties |-> <<>>]
BucketHardened ==
    [Type |-> S3Bucket,
     Properties |-> <<Prop("BucketEncryption", "set"),
                      Prop("VersioningConfiguration", "set"),
                      Prop("IntelligentTieringConfiguration", "set")>>]
FunctionBig == [Type |-> LambdaFunction, Properties |-> <<Prop("MemorySize", "2048")>>]
Trail == [Type |-> CloudTrailTrail, Properties |-> <<>>]

\* a security group open to the world
OpenSecurityGroup ==
    [Type |-> <<"AWS", "EC2", "SecurityGroup">>,
     Properties |-> <<Prop("SecurityGroupIngress.CidrIp", "0.0.0.0/0")>>]

Declarations == {BucketBare, BucketHardened, FunctionBig, Trail}

ResourceNames == <<"R1", "R2", "R3", "R4">>

MaxResources == 2

\* The templates: up to MaxResources resources, ids unique, and one template
\* with the security group.
Templates ==
    UNION { { [i \in 1..n |-> [key |-> ResourceNames[i], value |-> d[i]]] :
                d \in [1..n -> Declarations] } : n \in 0..MaxResources }
    \cup {<<[key |-> "R1", value |-> OpenSecurityGroup]>>}

\* resource.Properties?.<k> : the value, or "undefined"
PropertyOf(resource, k) ==
    IF Has(resource.Properties, k) THEN Get(resource.Properties, k) ELSE "undefined"

\* Number(x) || 0
NumberOrZero(x) ==
    CASE x = "2048" -> 2048
      [] x = "128" -> 128
      [] OTHER -> 0

\* !x for a property value
Falsy(v) == v \in {"undefined", "false", "", "0"}

ToLowerCase(str) ==
    CASE str = "S3" -> "s3"
      [] str = "Lambda" -> "lambda"
      [] str = "CloudTrail" -> "cloudtrail"
      [] str = "EC2" -> "ec2"
      [] str = "SecurityGroup" -> "securitygroup"
      [] OTHER -> str

(***************************************************************************)
(* The rule catalog and analyzeTemplate.                                   *)
(***************************************************************************)
createFinding(resource, issue, severity, category) ==
    [resource |-> resource, issue |-> issue, severity |-> severity, category |-> category]

\* Object.entries(template.Resources).reduce: acc[resourceName] = {issues}
\* for every resource whose findings (perEntry[i]) are not empty.
ReduceEntries(tmpl, perEntry) ==
    LET RECURSIVE go(_)
        go(i) == IF i = 0 THEN <<>>
                 ELSE LET acc == go(i - 1)
                      IN  IF perEntry[i] = <<>> THEN acc
                          ELSE Put(acc, tmpl[i].key, perEntry[i])
    IN  go(Len(tmpl))

S3BucketFindings_ElseIf(resourceName, resource) ==
    IF resource.Type # S3Bucket THEN <<>>
    ELSE IF Falsy(PropertyOf(resource, "BucketEncryption"))
    THEN <<createFinding(resourceName, "S3 Bucket lacks encryption.", "HIGH", "Security")>>
    ELSE IF PropertyOf(resource, "BlockPublicAcls") = "false"
    THEN <<createFinding(resourceName, "S3 Bucket allows public ACLs.", "CRITICAL", "Security")>>
    ELSE IF Falsy(PropertyOf(resource, "VersioningConfiguration"))
    THEN <<createFinding(resourceName, "S3 Bucket has no versioning enabled.", "MEDIUM", "Security")>>
    ELSE <<>>

S3BucketFindings(resourceName, resource) ==
    IF resource.Type # S3Bucket THEN <<>>
    ELSE (IF Falsy(PropertyOf(resource, "BucketEncryption"))
          THEN <<createFinding(resourceName, "S3 Bucket lacks encryption.", "HIGH", "Security")>>
          ELSE <<>>)
      \o (IF PropertyOf(resource, "BlockPublicAcls") = "false"
          THEN <<createFinding(resourceName, "S3 Bucket allows public ACLs.", "CRITICAL", "Security")>>
          ELSE <<>>)
      \o (IF Falsy(PropertyOf(resource, "VersioningConfiguration"))
          THEN <<createFinding(resourceName, "S3 Bucket has no versioning enabled.", "MEDIUM", "Security")>>
          ELSE <<>>)

checkS3Buckets(tmpl) == ReduceEntries(tmpl, [i \in 1..Len(tmpl) |-> S3BucketFindings(tmpl[i].key, tmpl[i].value)])

S3TieringFindings(resourceName, resource) ==
    IF resource.Type = S3Bucket
       /\ Falsy(PropertyOf(resource, "IntelligentTieringConfiguration"))
    THEN <<createFinding(resourceName, "S3 Bucket does not use Intelligent-Tiering.",
                         "LOW", "Cost Optimization")>>
    ELSE <<>>

checkS3IntelligentTiering(tmpl) == ReduceEntries(tmpl, [i \in 1..Len(tmpl) |-> S3TieringFindings(tmpl[i].key, tmpl[i].value)])

\* one finding per environment variable with a sensitive name
LambdaEnvFindings(resourceName, resource) ==
    IF resource.Type = LambdaFunction /\ PropertyOf(resource, "SensitiveVariable") # "undefined"
    THEN <<createFinding(resourceName,
                         "Lambda function contains sensitive environment variable.",
                         "HIGH", "Security")>>
    ELSE <<>>

checkLambdaEnvironmentVariables(tmpl) == ReduceEntries(tmpl, [i \in 1..Len(tmpl) |-> LambdaEnvFindings(tmpl[i].key, tmpl[i].value)])

LambdaMemoryFindings(resourceName, resource) ==
    IF resource.Type = LambdaFunction
       /\ NumberOrZero(PropertyOf(resource, "MemorySize")) > 1024
    THEN <<createFinding(resourceName, "Lambda function has high memory allocation.",
                         "MEDIUM", "Cost Optimization")>>
    ELSE <<>>

checkLambdaMemory(tmpl) == ReduceEntries(tmpl, [i \in 1..Len(tmpl) |-> LambdaMemoryFindings(tmpl[i].key, tmpl[i].value)])

checkCloudTrailLogging(tmpl) ==
    LET hasCloudTrail == \E i \in 1..Len(tmpl) : tmpl[i].value.Type = CloudTrailTrail
    IN  IF hasCloudTrail THEN <<>>
        ELSE <<[key |-> "Global",
                value |-> <<createFinding("Global", "CloudTrail is not enabled for logging.",
                                          "HIGH", "Security")>>]>>


\* the one statement of resource.Properties.PolicyDocument.Statement, when
\* the resource declares one
HasStatement(resource) ==
    \E k \in {"PolicyDocument.Statement.Effect", "PolicyDocument.Statement.Action",
             "PolicyDocument.Statement.Resource"} : Has(resource.Properties, k)

\* checkIamPolicies reads stmt.Action.includes and stmt.Resource.includes
\* without ?. : a TypeError when the statement allows and the member read
\* is absent
IamStatementThrows(resource) ==
    /\ resource.Type \in {<<"AWS", "IAM", "Policy">>, <<"AWS", "IAM", "Role">>}
    /\ HasStatement(resource)
    /\ PropertyOf(resource, "PolicyDocument.Statement.Effect") = "Allow"
    /\ \/ PropertyOf(resource, "PolicyDocument.Statement.Action") = "undefined"
       \/ /\ PropertyOf(resource, "PolicyDocument.Statement.Action") = "*"
          /\ PropertyOf(resource, "PolicyDocument.Statement.Resource") = "undefined"

IamPolicyFindings(resourceName, resource) ==
    IF /\ resource.Type \in {<<"AWS", "IAM", "Policy">>, <<"AWS", "IAM", "Role">>}
       /\ HasStatement(resource)
       /\ PropertyOf(resource, "PolicyDocument.Statement.Effect") = "Allow"
       /\ PropertyOf(resource, "PolicyDocument.Statement.Action") = "*"
       /\ PropertyOf(resource, "PolicyDocument.Statement.Resource") = "*"
    THEN <<createFinding(resourceName, "IAM policy allows full access to all resources.",
                         "CRITICAL", "Security")>>
    ELSE <<>>

checkIamPolicies(tmpl) == ReduceEntries(tmpl, [i \in 1..Len(tmpl) |-> IamPolicyFindings(tmpl[i].key, tmpl[i].value)])

\* the rules that guard on one resource type and one condition on its
\* properties, and emit one finding
GuardedRule(check) ==
    CASE check = "checkSecurityGroups" ->
            [type |-> <<"AWS", "EC2", "SecurityGroup">>, issue |-> "Security Group allows unrestricted ingress.",
             severity |-> "HIGH", category |-> "Security"]
      [] check = "checkApiGateway" ->
            [type |-> <<"AWS", "ApiGateway", "RestApi">>, issue |-> "API Gateway is publicly accessible.",
             severity |-> "HIGH", category |-> "Security"]
      [] check = "checkSecretsManager" ->
            [type |-> <<"AWS", "SecretsManager", "Secret">>, issue |-> "Secret is publicly accessible.",
             severity |-> "CRITICAL", category |-> "Security"]
      [] check = "checkKMSKeys" ->
            [type |-> <<"AWS", "KMS", "Key">>, issue |-> "KMS key has a public policy.",
             severity |-> "CRITICAL", category |-> "Security"]
      [] check = "checkSNS" ->
            [type |-> <<"AWS", "SNS", "Topic">>, issue |-> "SNS topic is not encrypted.",
             severity |-> "HIGH", category |-> "Security"]
      [] check = "checkSQS" ->
            [type |-> <<"AWS", "SQS", "Queue">>, issue |-> "SQS queue is not encrypted.",
             severity |-> "HIGH", category |-> "Security"]
      [] check = "checkEventBridgeRules" ->
            [type |-> <<"AWS", "Events", "Rule">>, issue |-> "EventBridge rule is disabled.",
             severity |-> "MEDIUM", category |-> "Security"]
      [] check = "checkRdsEncryption" ->
            [type |-> <<"AWS", "RDS", "DBInstance">>, issue |-> "RDS instance is not encrypted.",
             severity |-> "HIGH", category |-> "Security"]
      [] check = "checkRDSMultiAZ" ->
            [type |-> <<"AWS", "RDS", "DBInstance">>, issue |-> "RDS instance is using Multi-AZ with gp2 storage.",
             severity |-> "MEDIUM", category |-> "Cost Optimization"]
      [] check = "checkDynamoDBStreams" ->
            [type |-> <<"AWS", "DynamoDB", "Table">>, issue |-> "DynamoDB table does not have streams enabled.",
             severity |-> "MEDIUM", category |-> "Security"]
      [] check = "checkStepFunctions" ->
            [type |-> <<"AWS", "StepFunctions", "StateMachine">>, issue |-> "Step Function lacks logging configuration.",
             severity |-> "HIGH", category |-> "Security"]
      [] check = "checkDynamoDBAutoScaling" ->
            [type |-> <<"AWS", "DynamoDB", "Table">>, issue |-> "DynamoDB table has no auto-scaling enabled.",
             severity |-> "MEDIUM", category |-> "Cost Optimization"]
      [] check = "checkEC2InstanceType" ->
            [type |-> <<"AWS", "EC2", "Instance">>, issue |-> "EC2 instance is using an older t2 instance.",
             severity |-> "MEDIUM", category |-> "Cost Optimization"]
      [] check = "checkEBSUnusedVolumes" ->
            [type |-> <<"AWS", "EC2", "Volume">>, issue |-> "EBS Volume is not attached to any instance.",
             severity |-> "HIGH", category |-> "Cost Optimization"]
      [] check = "checkNATGatewayUsage" ->
            [type |-> <<"AWS", "EC2", "NatGateway">>,
             issue |-> "NAT Gateway exists but lacks a route table association.",
             severity |-> "LOW", category |-> "Cost Optimization"]

GuardedRuleFires(check, resource) ==
    CASE check = "checkSecurityGroups" ->
            PropertyOf(resource, "SecurityGroupIngress.CidrIp") = "0.0.0.0/0"
      [] check = "checkApiGateway" ->
            PropertyOf(resource, "EndpointConfiguration.Types") # "PRIVATE"
      [] check = "checkSecretsManager" -> ~Falsy(PropertyOf(resource, "PublicPolicy"))
      [] check = "checkKMSKeys" -> PropertyOf(resource, "KeyPolicy.Statement.Principal") = "*"
      [] check = "checkSNS" -> Falsy(PropertyOf(resource, "KmsMasterKeyId"))
      [] check = "checkSQS" -> Falsy(PropertyOf(resource, "KmsMasterKeyId"))
      [] check = "checkEventBridgeRules" -> PropertyOf(resource, "State") # "ENABLED"
      [] check = "checkRdsEncryption" -> Falsy(PropertyOf(resource, "StorageEncrypted"))
      [] check = "checkRDSMultiAZ" ->
            /\ ~Falsy(PropertyOf(resource, "MultiAZ"))
            /\ PropertyOf(resource, "StorageType") = "gp2"
      [] check = "checkDynamoDBStreams" -> Falsy(PropertyOf(resource, "StreamSpecification"))
      [] check = "checkStepFunctions" ->
            PropertyOf(resource, "LoggingConfiguration") = "undefined"
      [] check = "checkDynamoDBAutoScaling" -> Falsy(PropertyOf(resource, "BillingMode"))
      [] check = "checkEC2InstanceType" -> PropertyOf(resource, "InstanceType") = "t2.micro"
      [] check = "checkEBSUnusedVolumes" -> Falsy(PropertyOf(resource, "Attachments"))
      [] check = "checkNATGatewayUsage" ->
            Falsy(PropertyOf(resource, "SubnetRouteTableAssociations"))

checkGuarded(check, tmpl) ==
    ReduceEntries(tmpl,
        [i \in 1..Len(tmpl) |->
            IF /\ tmpl[i].value.Type = GuardedRule(check).type
               /\ GuardedRuleFires(check, tmpl[i].value)
            THEN <<createFinding(tmpl[i].key, GuardedRule(check).issue,
                                 GuardedRule(check).severity, GuardedRule(check).category)>>
            ELSE <<>>])

RunCheck(check, tmpl) ==
    CASE check = "checkIamPolicies" -> checkIamPolicies(tmpl)
      [] check = "checkS3Buckets" -> checkS3Buckets(tmpl)
      [] check = "checkS3IntelligentTiering" -> checkS3IntelligentTiering(tmpl)
      [] check = "checkLambdaEnvironmentVariables" -> checkLambdaEnvironmentVariables(tmpl)
      [] check = "checkLambdaMemory" -> checkLambdaMemory(tmpl)
      [] check = "checkCloudTrailLogging" -> checkCloudTrailLogging(tmpl)
      [] check = "constructor" -> <<[key |-> "Resources", value |-> <<>>]>>
      [] OTHER -> checkGuarded(check, tmpl)

\* the check throws on this template: checkIamPolicies on a statement it
\* cannot read; the inherited Object called as a check returns the template,
\* whose entry Resources has no issues member, and push(...finding.issues)
\* throws when the build keeps the spread syntax ("spread") and pushes
\* nothing when it compiles it to push.apply ("apply")
CheckThrows(check, tmpl, build) ==
    \/ /\ check = "checkIamPolicies"
       /\ \E i \in 1..Len(tmpl) : IamStatementThrows(tmpl[i].value)
    \/ /\ check = "constructor"
       /\ build = "spread"

serviceChecks ==
    <<[key |-> "IAM", value |-> <<"checkIamPolicies">>],
      [key |-> "S3", value |-> <<"checkS3Buckets", "checkS3IntelligentTiering">>],
      [key |-> "SecurityGroup", value |-> <<"checkSecurityGroups">>],
      [key |-> "ApiGateway", value |-> <<"checkApiGateway">>],
      [key |-> "SecretsManager", value |-> <<"checkSecretsManager">>],
      [key |-> "KMS", value |-> <<"checkKMSKeys">>],
      [key |-> "SNS", value |-> <<"checkSNS">>],
      [key |-> "SQS", value |-> <<"checkSQS">>],
      [key |-> "EventBridge", value |-> <<"checkEventBridgeRules">>],
      [key |-> "Lambda", value |-> <<"checkLambdaEnvironmentVariables", "checkLambdaMemory">>],
      [key |-> "RDS", value |-> <<"checkRdsEncryption", "checkRDSMultiAZ">>],
      [key |-> "DynamoDB", value |-> <<"checkDynamoDBStreams">>],
      [key |-> "StepFunctions", value |-> <<"checkStepFunctions">>],
      [key |-> "CloudTrail", value |-> <<"checkCloudTrailLogging">>],
      [key |-> "DynamoDBAutoScaling", value |-> <<"checkDynamoDBAutoScaling">>],
      [key |-> "EC2", value |-> <<"checkEC2InstanceType">>],
      [key |-> "EBS", value |-> <<"checkEBSUnusedVolumes">>],
      [key |-> "NATGateway", value |-> <<"checkNATGatewayUsage">>]>>

RECURSIVE Flat(_)
Flat(seqs) == IF seqs = <<>> THEN <<>> ELSE Head(seqs) \o Flat(Tail(seqs))

\* serviceChecks[service] ? serviceChecks[service] : [], flattened one level
\* by flatMap: the rules of a catalog key; the function Object, which every
\* object literal inherits as its member constructor and which is truthy;
\* nothing for any other name
ChecksOf(service) ==
    IF Has(serviceChecks, service) THEN Get(serviceChecks, service)
    ELSE IF service = "constructor" THEN <<service>>
    ELSE <<>>

\* the checks selected: those of the named services, or all of them
SelectedChecks(services) ==
    IF Len(services) # 0
    THEN Flat([i \in 1..Len(services) |-> ChecksOf(services[i])])
    ELSE Flat([i \in 1..Len(serviceChecks) |-> serviceChecks[i].value])

\* findings[resourceName].issues.push(...finding.issues) for every entry of
\* one check's result
RECURSIVE MergeInto(_, _)
MergeInto(findings, result) ==
    IF result = <<>> THEN findings
    ELSE LET e == Head(result)
             old == IF Has(findings, e.key) THEN Get(findings, e.key) ELSE <<>>
         IN  MergeInto(Put(findings, e.key, old \o e.value), Tail(result))

RECURSIVE RunChecks(_, _, _)
RunChecks(checks, tmpl, findings) ==
    IF checks = <<>> THEN findings
    ELSE RunChecks(Tail(checks), tmpl, MergeInto(findings, RunCheck(Head(checks), tmpl)))

\* analyzeTemplate up to its exit test: the findings of the selected checks
TemplateFindings(tmpl, services) == RunChecks(SelectedChecks(services), tmpl, <<>>)

(***************************************************************************)
(* The AI analysis module: generateResourceHash, sendPromptToAI,           *)
(* analyzeSingleResource, analyzeMultipleResources.                        *)
(***************************************************************************)
MAX_ATTEMPTS == 3
INITIAL_DELAY == 1000

\* declared next to the cache; nothing reads it
CONCURRENCY_LIMIT == 2

\* JSON.stringify(resource): the tokens of the serialization
RECURSIVE StringifyProperties(_)
StringifyProperties(props) ==
    IF props = <<>> THEN <<>>
    ELSE <<Head(props).key, Head(props).value>> \o StringifyProperties(Tail(props))

Stringify(resource) ==
    <<"{", "Type">> \o resource.Type \o <<"Properties", "{">>
        \o StringifyProperties(resource.Properties) \o <<"}", "}">>

\* sha256 is taken to be collision free: the digest identifies its input
Sha256Hex(text) == <<"sha256">> \o text

\* a digest of the resource type alone
generateResourceHash_TypeOnly(resource) == Sha256Hex(<<"{", "Type">> \o resource.Type \o <<"}">>)

generateResourceHash(resource) == Sha256Hex(Stringify(resource))

Hashes == {generateResourceHash(d) : d \in Declarations \cup {OpenSecurityGroup}}

\* The texts the remote model answers with in this specification
FencedArrayOfObject == <<FENCE, "[", "{", "}", "]", FENCE>>
FencedArrayOfArray == <<FENCE, "[", "[", "]", "]", FENCE>>
PureObject == <<"{", "}">>
NoJson == <<PROSE>>

SampleTexts == {FencedArrayOfObject, FencedArrayOfArray, PureObject, NoJson}

AiIssue == [issue |-> "ai issue", recommendation |-> "fix", severity |-> "High",
            category |-> "Security"]

NoObject == [resource |-> "undefined", hasIssues |-> FALSE, issues |-> <<>>]

\* the members of the JSON object the answer carries: the resource id the
\* model echoes (or none) and its issues array (or none)
Objects(resourceName) ==
    {NoObject}
    \cup {[resource |-> r, hasIssues |-> TRUE, issues |-> i] :
            r \in {resourceName, "undefined"}, i \in {<<>>, <<AiIssue>>}}

\* what bedrockClient.send can do: reject with HTTP 429, reject with another
\* error, or resolve with a body with or without results[0].outputText
Responses(resourceName) ==
    {[kind |-> k, hasText |-> FALSE, outputText |-> <<>>, object |-> NoObject] :
        k \in {"throttled", "error", "ok"}}
    \cup {[kind |-> "ok", hasText |-> TRUE, outputText |-> t, object |-> NoObject] :
            t \in SampleTexts \ {FencedArrayOfObject}}
    \cup {[kind |-> "ok", hasText |-> TRUE, outputText |-> FencedArrayOfObject, object |-> o] :
            o \in Objects(resourceName)}

\* every rejection of the send treated as a rate-limit signal
IsRateLimit_AnyRejection(resp) == resp.kind # "ok"

\* error['$metadata']?.httpStatusCode === 429
IsRateLimit(resp) == resp.kind = "throttled"

\* a linear backoff
NextDelay_Linear(d) == d + 1000

\* delay *= 2
NextDelay(d) == d * 2

\* One pass through the try block of sendPromptToAI for an answer that is not
\* a rate-limit rejection: the value returned, or threw = TRUE.
SendResult(resp) ==
    IF resp.kind # "ok" \/ ~resp.hasText
    THEN [threw |-> TRUE, value |-> UNDEFINED]
    ELSE ParseResponse(resp.outputText)

\* a catch block that logs and rethrows
analyzeSingleResourceCatch_Rethrow == [rethrow |-> TRUE, issues |-> <<>>]

\* The catch block of analyzeSingleResource: log and return no issues.
analyzeSingleResourceCatch == [rethrow |-> FALSE, issues |-> <<>>]

\* analyzeSingleResource after sendPromptToAI returned aiResponse: the
\* findings formatted from aiResponse.issues, or failed = TRUE when the
\* mapping throws inside the try block.
FormatFindings(message, object) ==
    IF ~Truthy(message) THEN [failed |-> FALSE, store |-> FALSE, issues |-> <<>>]
    ELSE IF ~IsObject(message) \/ ~object.hasIssues
    THEN [failed |-> TRUE, store |-> FALSE, issues |-> <<>>]
    ELSE [failed |-> FALSE, store |-> TRUE,
          issues |-> [i \in 1..Len(object.issues) |->
                        [resource |-> object.resource,
                         issue |-> object.issues[i].issue,
                         recommendation |-> object.issues[i].recommendation,
                         severity |-> object.issues[i].severity,
                         category |-> object.issues[i].category]]]

\* CACHE.has(resourceHash)
CacheHas(cache, hash) == Has(cache, hash)

Bump(f, h) == [f EXCEPT ![h] = @ + 1]

CurrentName == filteredResources[idx].key
CurrentResource == filteredResources[idx].value

\* a loop that creates the entry of a resource only when it has findings
Collect_OnlyWithFindings(found) ==
    /\ results' = IF found = <<>> /\ ~Has(results, CurrentName) THEN results
                  ELSE Put(results, CurrentName,
                           (IF Has(results, CurrentName) THEN Get(results, CurrentName) ELSE <<>>)
                               \o found)
    /\ idx' = idx + 1
    /\ rpc' = "loop"

\* results[resourceName].issues.push(...findings.issues) and the next turn
\* of the loop of analyzeMultipleResources
Collect(found) ==
    /\ results' = Put(results, CurrentName,
                      (IF Has(results, CurrentName) THEN Get(results, CurrentName) ELSE <<>>)
                          \o found)
    /\ idx' = idx + 1
    /\ rpc' = "loop"

\* a catch block that stores the empty result it returns
SingleResourceFails_CachesEmpty ==
    /\ failed' = failed \cup {CurrentName}
    /\ CACHE' = Put(CACHE, generateResourceHash(CurrentResource), <<>>)
    /\ UNCHANGED okFor
    /\ Collect(analyzeSingleResourceCatch.issues)
    /\ UNCHANGED exitCode

\* an error reaches the catch block of analyzeSingleResource
SingleResourceFails ==
    /\ failed' = failed \cup {CurrentName}
    /\ UNCHANGED <<CACHE, okFor>>
    /\ IF analyzeSingleResourceCatch.rethrow
       THEN /\ rpc' = "crashed"
            /\ exitCode' = 1
            /\ UNCHANGED <<results, idx>>
       ELSE /\ Collect(analyzeSingleResourceCatch.issues)
            /\ UNCHANGED exitCode

(***************************************************************************)
(* The CLI entry point main: checkBedrockAccess, the synth step,           *)
(* analyzeStack, getAvailableModels, analyzeWithAI and the report.         *)
(***************************************************************************)
IamPolicy == <<"AWS", "IAM", "Policy">>

WildcardPolicy ==
    [Type |-> IamPolicy, Properties |-> <<Prop("PolicyDocument.Statement.Action", "*")>>]
HugeBucket == [Type |-> S3Bucket, Properties |-> <<Prop("Tags", "huge")>>]

MainDeclarations == {BucketBare, FunctionBig, WildcardPolicy, HugeBucket}

MainTemplates ==
    UNION { { [i \in 1..n |-> [key |-> ResourceNames[i], value |-> d[i]]] :
                d \in [1..n -> MainDeclarations] } : n \in 0..MaxResources }

MAX_RESOURCE_CHAR_LENGTH == 16384

\* JSON.stringify(resource, null, 2).length
StringifyLength(resource) ==
    IF \E i \in 1..Len(resource.Properties) : resource.Properties[i].value = "huge"
    THEN 20000
    ELSE 10 * Len(Stringify(resource))

\* truncateResource throws when it truncates: the cut serialization followed
\* by the marker is not JSON
TruncateThrows(resource, maxCharLength) == StringifyLength(resource) > maxCharLength

ToUpperCase(str) ==
    CASE str = "Lambda" -> "LAMBDA"
      [] OTHER -> str

\* resourceType.replace('AWS::', '').split('::')[0].toUpperCase()
normalizeResourceType(type) == ToUpperCase(type[2])

AnalyzeOnlyOptions ==
    {[given |-> FALSE, list |-> <<>>], [given |-> TRUE, list |-> <<"S3">>]}

\* the rules of analyzeStack for the resource types of MainDeclarations
StackIssues(resourceId, resource) ==
    IF resource.Type = IamPolicy
       /\ PropertyOf(resource, "PolicyDocument.Statement.Action") = "*"
    THEN <<<<"IAM Policy allows all actions", resourceId>>>>
    ELSE <<>>

StackOptimizations(resourceId, resource) ==
    (IF resource.Type = S3Bucket /\ Falsy(PropertyOf(resource, "VersioningConfiguration"))
     THEN <<<<"Enable versioning on S3 Bucket", resourceId>>>>
     ELSE <<>>)
    \o (IF resource.Type = LambdaFunction /\ NumberOrZero(PropertyOf(resource, "Timeout")) > 15
        THEN <<<<"Reduce Lambda function timeout", resourceId>>>>
        ELSE <<>>)

analyzeStack(cf) ==
    [issues |-> Flat([i \in 1..Len(cf) |-> StackIssues(cf[i].key, cf[i].value)]),
     optimizations |-> Flat([i \in 1..Len(cf) |-> StackOptimizations(cf[i].key, cf[i].value)])]

preferredModels ==
    <<"amazon.nova-pro-v1:0", "anthropic.claude-v2", "anthropic.claude-instant-v1",
      "amazon.titan-text-lite-v1", "amazon.titan-text-express-v1",
      "amazon.titan-text-g1-express">>

UserPreferredModels == {"", "amazon.titan-text-express-v1", "custom.model"}

\* what ListFoundationModels answers: a failure, or the available models
Listings ==
    {[ok |-> FALSE, models |-> {}]}
    \cup {[ok |-> TRUE, models |-> M] :
            M \in SUBSET {"amazon.nova-pro-v1:0", "amazon.titan-text-express-v1", "custom.model"}}

getAvailableModels_ListBeforePreferred(preferred, listing) ==
    IF ~listing.ok THEN "null"
    ELSE IF \E i \in 1..Len(preferredModels) : preferredModels[i] \in listing.models
    THEN preferredModels[CHOOSE i \in 1..Len(preferredModels) :
                            /\ preferredModels[i] \in listing.models
                            /\ \A j \in 1..(i - 1) : preferredModels[j] \notin listing.models]
    ELSE IF preferred # "" /\ preferred \in listing.models THEN preferred
    ELSE "null"

getAvailableModels(preferred, listing) ==
    IF ~listing.ok THEN "null"
    ELSE IF preferred # "" /\ preferred \in listing.models THEN preferred
    ELSE IF \E i \in 1..Len(preferredModels) : preferredModels[i] \in listing.models
    THEN preferredModels[CHOOSE i \in 1..Len(preferredModels) :
                            /\ preferredModels[i] \in listing.models
                            /\ \A j \in 1..(i - 1) : preferredModels[j] \notin listing.models]
    ELSE "null"

TokenCounts == {1, 2}

\* what bedrockRuntimeClient.send can do for one resource
ModelAnswers ==
    {[kind |-> k, inputTextTokenCount |-> 0, tokenCount |-> 0] :
        k \in {"rejected", "unparsable body"}}
    \cup {[kind |-> "no results", inputTextTokenCount |-> i, tokenCount |-> 0] : i \in TokenCounts}
    \cup {[kind |-> "ok", inputTextTokenCount |-> i, tokenCount |-> o] :
            i \in TokenCounts, o \in TokenCounts}

EmptyAnalysis == [recommendations |-> <<>>, inputTokens |-> 0, outputTokens |-> 0]

NoModelResult_Throws == [threw |-> TRUE, analysis |-> EmptyAnalysis]

\* analyzeWithAI: if (!modelId) return { recommendations: [], inputTokens: 0,
\* outputTokens: 0 }
NoModelResult == [threw |-> FALSE, analysis |-> EmptyAnalysis]

ReportStatus_AnyFinding(iss, recs, opts) ==
    IF Len(iss) + Len(recs) + Len(opts) > 0 THEN "failed" ELSE "passed"

\* status: issues.length > 0 ? 'failed' : 'passed'
ReportStatus(iss, recs, opts) == IF Len(iss) > 0 THEN "failed" ELSE "passed"

\* process.exit(issues.length > 0 ? 2 : 0)
ExitCodeFor(iss, recs, opts) == IF Len(iss) > 0 THEN 2 ELSE 0

\* process.exit(1) of the catch block of main and of its early exits
FailureExitCode == 1

SynthFailed_CommandOnly(outcome) == outcome = "command failed"

\* the synth step of main fails when execSync throws, when existsSync finds
\* no output file, and when JSON.parse throws
SynthFailed(outcome) == outcome # "ok"

\* nano-dollars: INPUT_COST_PER_1000 = 0.00163, OUTPUT_COST_PER_1000 = 0.00551
EstimatedCost(inputTokens, outputTokens) == inputTokens * 1630 + outputTokens * 5510

NoTokenUsage == [inputTokens |-> 0, outputTokens |-> 0, estimatedCost |-> 0]

Eligible(i) ==
    \/ ~analyzeOnlyResources.given
    \/ normalizeResourceType(cloudFormation[i].value.Type) \in Range(analyzeOnlyResources.list)

\* the first resource from position i on that the loop does not skip
NextEligible(i) ==
    IF \E j \in i..Len(cloudFormation) : Eligible(j)
    THEN CHOOSE j \in i..Len(cloudFormation) :
            Eligible(j) /\ \A k \in i..(j - 1) : ~Eligible(k)
    ELSE Len(cloudFormation) + 1

\* main after the static analysis without --enable-ai: the report, the exit
FinishWithoutAI(iss, opts) ==
    /\ reports' = Append(reports,
            [issues |-> iss, recommendations |-> <<>>, optimizations |-> opts,
             status |-> ReportStatus(iss, <<>>, opts),
             hasTokenUsage |-> FALSE, tokenUsage |-> NoTokenUsage,
             afterAI |-> FALSE])
    /\ mainExit' = ExitCodeFor(iss, <<>>, opts)
    /\ mpc' = "exited"
    /\ UNCHANGED aiResponse

\* main after analyzeWithAI returned ai: the report, the exit
FinishWithAI(ai) ==
    /\ aiResponse' = ai
    /\ reports' = Append(reports,
            [issues |-> issues, recommendations |-> ai.recommendations,
             optimizations |-> optimizations,
             status |-> ReportStatus(issues, ai.recommendations, optimizations),
             hasTokenUsage |-> TRUE,
             tokenUsage |-> [inputTokens |-> ai.inputTokens,
                             outputTokens |-> ai.outputTokens,
                             estimatedCost |-> EstimatedCost(ai.inputTokens, ai.outputTokens)],
             afterAI |-> TRUE])
    /\ mainExit' = ExitCodeFor(issues, ai.recommendations, optimizations)
    /\ mpc' = "exited"

\* the loop of analyzeWithAI from position from on, with the totals so far,
\* up to the next send: the loop ends and the totals are returned, or
\* truncateResource throws into the outer catch block, or a send is next
Advance(from, recs, inTokens, outTokens) ==
    LET j == NextEligible(from)
    IN  /\ allRecommendations' = recs
        /\ totalInputTokens' = inTokens
        /\ totalOutputTokens' = outTokens
        /\ IF j > Len(cloudFormation)
           THEN /\ FinishWithAI([recommendations |-> recs, inputTokens |-> inTokens,
                                 outputTokens |-> outTokens])
                /\ aiIdx' = j
           ELSE IF TruncateThrows(cloudFormation[j].value, MAX_RESOURCE_CHAR_LENGTH)
           THEN /\ FinishWithAI(EmptyAnalysis)
                /\ aiIdx' = j
           ELSE /\ aiIdx' = j
                /\ mpc' = "invoke"
                /\ UNCHANGED <<aiResponse, reports, mainExit>>

MainIdle ==
    /\ ENABLE_AI = FALSE
    /\ userPreferredModel = ""
    /\ analyzeOnlyResources = [given |-> FALSE, list |-> <<>>]
    /\ synthOutput = <<>>
    /\ mpc = "idle"
    /\ accessOutcome = "none"
    /\ synthOutcome = "none"
    /\ cloudFormation = <<>>
    /\ staticRuns = 0
    /\ issues = <<>>
    /\ optimizations = <<>>
    /\ foundationModels = [ok |-> FALSE, models |-> {}]
    /\ modelId = "none"
    /\ aiIdx = 0
    /\ allRecommendations = <<>>
    /\ totalInputTokens = 0
    /\ totalOutputTokens = 0
    /\ aiResponse = EmptyAnalysis
    /\ invoked = <<>>
    /\ answered = EmptyAnalysis
    /\ reports = <<>>
    /\ mainExit = -1

(***************************************************************************)
(* SpecRules: analyzeTemplate applied to every template of RuleTemplates   *)
(* and every list of ServiceLists.                                         *)
(***************************************************************************)
\* the declarations of the templates: buckets with each combination of
\* encryption and versioning, a function with MemorySize 2048, a trail, a
\* table without properties, a policy whose statement allows every action on
\* every resource, a policy whose allowing statement has no Action, and a log
\* group, for which the catalog has no rule
RuleDeclarations ==
    {BucketBare, BucketHardened, FunctionBig, Trail,
     [Type |-> S3Bucket, Properties |-> <<Prop("BucketEncryption", "set")>>],
     [Type |-> S3Bucket, Properties |-> <<Prop("VersioningConfiguration", "set")>>],
     [Type |-> <<"AWS", "DynamoDB", "Table">>, Properties |-> <<>>],
     [Type |-> <<"AWS", "IAM", "Policy">>,
      Properties |-> <<Prop("PolicyDocument.Statement.Effect", "Allow"),
                       Prop("PolicyDocument.Statement.Action", "*"),
                       Prop("PolicyDocument.Statement.Resource", "*")>>],
     [Type |-> <<"AWS", "IAM", "Policy">>,
      Properties |-> <<Prop("PolicyDocument.Statement.Effect", "Allow"),
                       Prop("PolicyDocument.Statement.Resource", "*")>>],
     [Type |-> <<"AWS", "Logs", "LogGroup">>, Properties |-> <<>>]}

RuleTemplates ==
    UNION { { [i \in 1..n |-> [key |-> ResourceNames[i], value |-> d[i]]] :
                d \in [1..n -> RuleDeclarations] } : n \in 0..MaxResources }

ServiceNames ==
    {"S3", "IAM", "DynamoDB", "DynamoDBAutoScaling", "CloudTrail", "NoSuchService",
     "constructor"}

MaxServices == 2

RulesIdle ==
    /\ ruleTemplate = <<>>
    /\ ruleServices = <<>>
    /\ ruleChecks = <<>>
    /\ ruleIdx = 0
    /\ ruleFindings = <<>>
    /\ qpc = "idle"

CacheIdle ==
    /\ cacheCalls = <<>>
    /\ storedModes = <<>>

ParseIdle ==
    /\ rawText = <<>>
    /\ completeMessage = [threw |-> FALSE, value |-> UNDEFINED]
    /\ extracted = NULL
    /\ ppc = "idle"

(***************************************************************************)
(* runAnalysis.                                                            *)
(***************************************************************************)
configVars == <<variant, licenseKey, selectedServices, stack>>
callVars == <<retries, delay, callState, attempts, waits>>

SelectedServicesOptions ==
    {[given |-> FALSE, list |-> <<>>],
     [given |-> TRUE, list |-> <<"S3">>],
     [given |-> TRUE, list |-> <<"s3">>],
     [given |-> TRUE, list |-> <<"SecurityGroup">>]}

\* type.split('::')[1]?.toLowerCase()
normalizeServiceName(type) == ToLowerCase(type[2])

\* the resources handed to the AI pass
FilterResources(tmpl, selected) ==
    IF selected.given
    THEN SelectSeq(tmpl, LAMBDA e :
            \E i \in 1..Len(selected.list) :
                normalizeServiceName(e.value.Type) = ToLowerCase(selected.list[i]))
    ELSE tmpl

\* { ...staticAnalysisFindings, ...aiFindings }
RECURSIVE Spread(_, _)
Spread(base, over) ==
    IF over = <<>> THEN base
    ELSE Spread(Put(base, Head(over).key, Head(over).value), Tail(over))

RunIdle ==
    /\ variant = "index"
    /\ licenseKey = FALSE
    /\ selectedServices = [given |-> FALSE, list |-> <<>>]
    /\ stack = <<>>
    /\ rpc = "idle"
    /\ template = <<>>
    /\ staticAnalysisFindings = <<>>
    /\ filteredResources = <<>>
    /\ idx = 0
    /\ results = <<>>
    /\ CACHE = <<>>
    /\ retries = 0
    /\ delay = 0
    /\ callState = "idle"
    /\ attempts = <<>>
    /\ waits = <<>>
    /\ sendsFor = [h \in Hashes |-> 0]
    /\ callsFor = [h \in Hashes |-> 0]
    /\ okFor = {}
    /\ hits = {}
    /\ failed = {}
    /\ writes = <<>>
    /\ exitCode = -1

Init ==
    /\ ParseIdle
    /\ MainIdle
    /\ RulesIdle
    /\ CacheIdle
    /\ variant \in {"index", "early"}
    \* src/index.ts reads the licence key and never uses it
    /\ licenseKey \in (IF variant = "early" THEN BOOLEAN ELSE {FALSE})
    /\ selectedServices \in SelectedServicesOptions
    /\ stack \in Templates
    /\ rpc = "start"
    /\ template = <<>>
    /\ staticAnalysisFindings = <<>>
    /\ filteredResources = <<>>
    /\ idx = 0
    /\ results = <<>>
    /\ CACHE = <<>>
    /\ retries = 0
    /\ delay = 0
    /\ callState = "idle"
    /\ attempts = <<>>
    /\ waits = <<>>
    /\ sendsFor = [h \in Hashes |-> 0]
    /\ callsFor = [h \in Hashes |-> 0]
    /\ okFor = {}
    /\ hits = {}
    /\ failed = {}
    /\ writes = <<>>
    /\ exitCode = -1

\* synthesizeCdkStack: the command fails, its output does not parse, or the
\* template is returned
Synth ==
    /\ rpc = "start"
    /\ \E outcome \in {"ok", "command failed", "unparsable output"} :
        IF outcome = "ok"
        THEN /\ template' = stack
             /\ rpc' = "static"
             /\ UNCHANGED exitCode
        ELSE /\ rpc' = "exited"
             /\ exitCode' = 1
             /\ UNCHANGED template
    /\ UNCHANGED <<parseVars, cacheVars, rulesVars, mainVars, configVars, staticAnalysisFindings, filteredResources,
                   idx, results, CACHE, callVars, sendsFor, callsFor, okFor, hits,
                   failed, writes>>

\* runAnalysis from the static analysis to the call of analyzeMultipleResources
StaticAnalysis ==
    /\ rpc = "static"
    /\ LET findings == TemplateFindings(template, selectedServices.list)
       IN  IF Len(findings) = 0
           THEN \* analyzeTemplate: process.exit(0)
                /\ rpc' = "exited"
                /\ exitCode' = 0
                /\ UNCHANGED <<staticAnalysisFindings, filteredResources, idx, writes>>
           ELSE /\ staticAnalysisFindings' = findings
                /\ writes' = IF variant = "early" /\ ~licenseKey
                             THEN Append(writes, [content |-> findings, afterAI |-> FALSE])
                             ELSE writes
                /\ filteredResources' = FilterResources(template, selectedServices)
                /\ idx' = 1
                /\ rpc' = "loop"
                /\ UNCHANGED exitCode
    /\ UNCHANGED <<parseVars, cacheVars, rulesVars, mainVars, configVars, template, results, CACHE, callVars,
                   sendsFor, callsFor, okFor, hits, failed>>

\* a loop that does not await analyzeSingleResource: it moves on to the next
\* resource while the request for the current one is outstanding
AnalyzeNext_WithoutAwait ==
    /\ rpc \in {"loop", "send", "backoff"}
    /\ (IF rpc = "loop" THEN idx ELSE idx + 1) <= Len(filteredResources)
    /\ LET next == IF rpc = "loop" THEN idx ELSE idx + 1
           resourceHash == generateResourceHash(filteredResources[next].value)
       IN  /\ callsFor' = Bump(callsFor, resourceHash)
           /\ IF rpc = "loop" /\ CacheHas(CACHE, resourceHash)
              THEN /\ Collect(Get(CACHE, resourceHash))
                   /\ hits' = hits \cup {CurrentName}
                   /\ UNCHANGED callVars
              ELSE /\ rpc' = "send"
                   /\ idx' = next
                   /\ retries' = MAX_ATTEMPTS
                   /\ delay' = INITIAL_DELAY
                   /\ callState' = "running"
                   /\ attempts' = <<>>
                   /\ waits' = <<>>
                   /\ UNCHANGED <<results, hits>>
    /\ UNCHANGED <<parseVars, cacheVars, rulesVars, mainVars, configVars, template, staticAnalysisFindings,
                   filteredResources, CACHE, sendsFor, okFor, failed, writes, exitCode>>

\* one turn of the loop of analyzeMultipleResources up to the cache test of
\* analyzeSingleResource
AnalyzeNext ==
    /\ rpc = "loop"
    /\ idx <= Len(filteredResources)
    /\ LET resourceHash == generateResourceHash(CurrentResource)
       IN  /\ callsFor' = Bump(callsFor, resourceHash)
           /\ IF CacheHas(CACHE, resourceHash)
              THEN /\ Collect(Get(CACHE, resourceHash))
                   /\ hits' = hits \cup {CurrentName}
                   /\ UNCHANGED callVars
              ELSE /\ rpc' = "send"
                   /\ retries' = MAX_ATTEMPTS
                   /\ delay' = INITIAL_DELAY
                   /\ callState' = "running"
                   /\ attempts' = <<>>
                   /\ waits' = <<>>
                   /\ UNCHANGED <<results, idx, hits>>
    /\ UNCHANGED <<parseVars, cacheVars, rulesVars, mainVars, configVars, template, staticAnalysisFindings,
                   filteredResources, CACHE, sendsFor, okFor, failed, writes, exitCode>>

\* sendPromptToAI: one bedrockClient.send and what follows its answer, up to
\* the next wait or send
Send ==
    /\ rpc = "send"
    /\ retries > 0
    /\ \E resp \in Responses(CurrentName) :
        LET resourceHash == generateResourceHash(CurrentResource)
        IN  /\ attempts' = Append(attempts, [kind |-> resp.kind, hasText |-> resp.hasText,
                                             text |-> resp.outputText])
            /\ sendsFor' = Bump(sendsFor, resourceHash)
            /\ IF IsRateLimit(resp)
               THEN /\ rpc' = "backoff"
                    /\ UNCHANGED <<results, idx, CACHE, okFor, failed, callState, exitCode>>
               ELSE LET r == SendResult(resp)
                        f == FormatFindings(r.value, resp.object)
                    IN  IF r.threw
                        THEN /\ callState' = "threw"
                             /\ SingleResourceFails
                        ELSE /\ callState' = "returned"
                             /\ IF f.failed
                                THEN SingleResourceFails
                                ELSE /\ CACHE' = IF f.store
                                                 THEN Put(CACHE, resourceHash, f.issues)
                                                 ELSE CACHE
                                     /\ okFor' = IF f.store THEN okFor \cup {resourceHash}
                                                 ELSE okFor
                                     /\ Collect(f.issues)
                                     /\ UNCHANGED <<failed, exitCode>>
    /\ UNCHANGED <<parseVars, cacheVars, rulesVars, mainVars, configVars, template, staticAnalysisFindings,
                   filteredResources, retries, delay, waits, callsFor, hits, writes>>

\* sendPromptToAI: the backoff wait after a rate-limit answer, then
\* delay *= 2, retries-- and the loop test
Backoff ==
    /\ rpc = "backoff"
    /\ waits' = Append(waits, delay)
    /\ delay' = NextDelay(delay)
    /\ retries' = retries - 1
    /\ IF retries - 1 > 0
       THEN /\ rpc' = "send"
            /\ UNCHANGED <<results, idx, CACHE, okFor, failed, callState, exitCode>>
       ELSE \* throw new Error('Max retries reached for AI request.')
            /\ callState' = "threw"
            /\ SingleResourceFails
    /\ UNCHANGED <<parseVars, cacheVars, rulesVars, mainVars, configVars, template, staticAnalysisFindings,
                   filteredResources, attempts, sendsFor, callsFor, hits, writes>>

\* analyzeMultipleResources returns; runAnalysis merges and writes the report
MergeAndWrite ==
    /\ rpc = "loop"
    /\ idx > Len(filteredResources)
    /\ LET merged == IF variant = "index"
                     THEN MergeInto(staticAnalysisFindings, results)
                     ELSE Spread(staticAnalysisFindings, results)
       IN  /\ writes' = Append(writes, [content |-> merged, afterAI |-> TRUE])
           /\ staticAnalysisFindings' = IF variant = "index" THEN merged
                                        ELSE staticAnalysisFindings
    /\ rpc' = "done"
    /\ exitCode' = 0
    /\ UNCHANGED <<parseVars, cacheVars, rulesVars, mainVars, configVars, template, filteredResources, idx, results,
                   CACHE, callVars, sendsFor, callsFor, okFor, hits, failed>>

Next ==
    \/ Synth
    \/ StaticAnalysis
    \/ AnalyzeNext
    \/ Send
    \/ Backoff
    \/ MergeAndWrite

Spec == Init /\ [][Next]_vars

(***************************************************************************)
(* SpecParse: the parsing applied to every text of Texts.                  *)
(***************************************************************************)
InitParse ==
    /\ RunIdle
    /\ MainIdle
    /\ RulesIdle
    /\ CacheIdle
    /\ rawText \in Texts
    /\ completeMessage = [threw |-> FALSE, value |-> UNDEFINED]
    /\ extracted = NULL
    /\ ppc = "text"

ParseStep ==
    /\ ppc = "text"
    /\ completeMessage' = ParseResponse(rawText)
    /\ extracted' = extractJsonFromResponse(rawText)
    /\ ppc' = "parsed"
    /\ UNCHANGED <<rawText, runVars, mainVars, rulesVars, cacheVars>>

NextParse == ParseStep

SpecParse == InitParse /\ [][NextParse]_vars

(***************************************************************************)
(* SpecRules: one call of analyzeTemplate.                                 *)
(***************************************************************************)
InitRules ==
    /\ ParseIdle
    /\ RunIdle
    /\ MainIdle
    /\ CacheIdle
    /\ ruleTemplate \in RuleTemplates
    /\ ruleServices \in SeqsUpTo(ServiceNames, MaxServices)
    /\ ruleChecks = <<>>
    /\ ruleIdx = 0
    /\ ruleFindings = <<>>
    /\ qpc = "start"

\* analyzeTemplate: const checks = ...
SelectChecks ==
    /\ qpc = "start"
    /\ ruleChecks' = SelectedChecks(ruleServices)
    /\ ruleIdx' = 1
    /\ qpc' = "checks"
    /\ UNCHANGED <<parseVars, cacheVars, runVars, mainVars, ruleTemplate, ruleServices, ruleFindings>>

\* one turn of checks.forEach: the check runs and its result is merged, or
\* it throws and analyzeTemplate throws with it
RunNextCheck ==
    /\ qpc = "checks"
    /\ ruleIdx <= Len(ruleChecks)
    /\ \E build \in {"spread", "apply"} :
        IF CheckThrows(ruleChecks[ruleIdx], ruleTemplate, build)
        THEN /\ qpc' = "threw"
             /\ UNCHANGED ruleFindings
        ELSE /\ ruleFindings' = MergeInto(ruleFindings,
                                          RunCheck(ruleChecks[ruleIdx], ruleTemplate))
             /\ UNCHANGED qpc
    /\ ruleIdx' = ruleIdx + 1
    /\ UNCHANGED <<parseVars, cacheVars, runVars, mainVars, ruleTemplate, ruleServices, ruleChecks>>

\* after the loop: process.exit(0) without findings, else return findings
FinishChecks ==
    /\ qpc = "checks"
    /\ ruleIdx > Len(ruleChecks)
    /\ qpc' = IF Len(ruleFindings) = 0 THEN "exited" ELSE "returned"
    /\ UNCHANGED <<parseVars, cacheVars, runVars, mainVars, ruleTemplate, ruleServices, ruleChecks,
                   ruleIdx, ruleFindings>>

NextRules ==
    \/ SelectChecks
    \/ RunNextCheck
    \/ FinishChecks

SpecRules == InitRules /\ [][NextRules]_vars

(***************************************************************************)
(* SpecCache: calls of analyzeSingleResource in one process, as made by    *)
(* calls of analyzeMultipleResources with the same or different modes.     *)
(***************************************************************************)
DEFAULT_MODES == <<"security", "cost", "compliance", "risk">>

ModeSets == {<<"security">>, <<"cost">>, DEFAULT_MODES}

MaxCalls == 3

\* what sendPromptToAI gives for the prompt generated for these modes: an
\* error, or the object the model answers with, its issues in a category of
\* the modes asked for
PromptResults(resourceName, modes) ==
    {[threw |-> TRUE, value |-> UNDEFINED, object |-> NoObject]}
    \cup {[threw |-> FALSE, value |-> <<"{", "}">>,
           object |-> [resource |-> resourceName, hasIssues |-> TRUE,
                       issues |-> <<[issue |-> "ai issue", recommendation |-> "fix",
                                     severity |-> "High", category |-> modes[1]]>>]]}

InitCache ==
    /\ ParseIdle
    /\ RunIdle
    /\ MainIdle
    /\ RulesIdle
    /\ cacheCalls = <<>>
    /\ storedModes = <<>>

\* one call analyzeSingleResource(resourceName, resource, modes)
AnalyzeSingleResourceCall ==
    /\ Len(cacheCalls) < MaxCalls
    /\ \E n \in 1..2, resource \in {BucketBare, FunctionBig}, modes \in ModeSets :
        LET resourceName == ResourceNames[n]
            resourceHash == generateResourceHash(resource)
        IN  IF CacheHas(CACHE, resourceHash)
            THEN /\ cacheCalls' = Append(cacheCalls,
                        [resource |-> resource, modes |-> modes, fromCache |-> TRUE,
                         issues |-> Get(CACHE, resourceHash),
                         computedFor |-> Get(storedModes, resourceHash)])
                 /\ UNCHANGED <<CACHE, storedModes>>
            ELSE \E sent \in PromptResults(resourceName, modes) :
                    LET formatted == IF sent.threw
                                     THEN [failed |-> TRUE, store |-> FALSE, issues |-> <<>>]
                                     ELSE FormatFindings(sent.value, sent.object)
                    IN  /\ cacheCalls' = Append(cacheCalls,
                               [resource |-> resource, modes |-> modes, fromCache |-> FALSE,
                                issues |-> formatted.issues, computedFor |-> modes])
                        /\ CACHE' = IF formatted.store
                                    THEN Put(CACHE, resourceHash, formatted.issues)
                                    ELSE CACHE
                        /\ storedModes' = IF formatted.store
                                          THEN Put(storedModes, resourceHash, modes)
                                          ELSE storedModes
    /\ UNCHANGED <<parseVars, rulesVars, mainVars, configVars, callVars, rpc, template,
                   staticAnalysisFindings, filteredResources, idx, results, sendsFor,
                   callsFor, okFor, hits, failed, writes, exitCode>>

SpecCache == InitCache /\ [][AnalyzeSingleResourceCall]_vars

(***************************************************************************)
(* SpecMain: one run of main.                                              *)
(***************************************************************************)
AccessOutcomes == {"ok", "denied", "unreachable"}
SynthOutcomes == {"ok", "command failed", "output missing", "output unparsable"}

accumulators == <<allRecommendations, totalInputTokens, totalOutputTokens>>
mainConfig == <<ENABLE_AI, userPreferredModel, analyzeOnlyResources, synthOutput>>

InitMain ==
    /\ ParseIdle
    /\ RunIdle
    /\ RulesIdle
    /\ CacheIdle
    /\ ENABLE_AI \in BOOLEAN
    /\ userPreferredModel \in UserPreferredModels
    /\ analyzeOnlyResources \in AnalyzeOnlyOptions
    /\ synthOutput \in MainTemplates
    /\ mpc = "start"
    /\ accessOutcome = "none"
    /\ synthOutcome = "none"
    /\ cloudFormation = <<>>
    /\ staticRuns = 0
    /\ issues = <<>>
    /\ optimizations = <<>>
    /\ foundationModels = [ok |-> FALSE, models |-> {}]
    /\ modelId = "none"
    /\ aiIdx = 0
    /\ allRecommendations = <<>>
    /\ totalInputTokens = 0
    /\ totalOutputTokens = 0
    /\ aiResponse = EmptyAnalysis
    /\ invoked = <<>>
    /\ answered = EmptyAnalysis
    /\ reports = <<>>
    /\ mainExit = -1

\* main: if (!(await checkBedrockAccess())) process.exit(1)
CheckBedrockAccess ==
    /\ mpc = "start"
    /\ \E outcome \in AccessOutcomes :
        /\ accessOutcome' = outcome
        /\ IF outcome = "ok"
           THEN /\ mpc' = "synth"
                /\ UNCHANGED mainExit
           ELSE /\ mpc' = "exited"
                /\ mainExit' = FailureExitCode
    /\ UNCHANGED <<parseVars, cacheVars, rulesVars, runVars, mainConfig, synthOutcome, cloudFormation, staticRuns,
                   issues, optimizations, modelId, aiIdx, accumulators, aiResponse,
                   invoked, answered, reports, foundationModels>>

\* main: execSync('cdk synth ...'), existsSync, readFileSync, JSON.parse
SynthMain ==
    /\ mpc = "synth"
    /\ \E outcome \in SynthOutcomes :
        /\ synthOutcome' = outcome
        /\ IF ~SynthFailed(outcome)
           THEN /\ cloudFormation' = synthOutput
                /\ mpc' = "static"
                /\ UNCHANGED mainExit
           ELSE /\ mpc' = "exited"
                /\ mainExit' = FailureExitCode
                /\ UNCHANGED cloudFormation
    /\ UNCHANGED <<parseVars, cacheVars, rulesVars, runVars, mainConfig, accessOutcome, staticRuns,
                   issues, optimizations, modelId, aiIdx, accumulators, aiResponse,
                   invoked, answered, reports, foundationModels>>

\* main: analyzeStack, and without ENABLE_AI the report and the exit
AnalyzeStackMain ==
    /\ mpc = "static"
    /\ LET r == analyzeStack(cloudFormation)
       IN  /\ issues' = r.issues
           /\ optimizations' = r.optimizations
           /\ staticRuns' = staticRuns + 1
           /\ IF ENABLE_AI
              THEN /\ mpc' = "models"
                   /\ UNCHANGED <<reports, mainExit, aiResponse>>
              ELSE FinishWithoutAI(r.issues, r.optimizations)
    /\ UNCHANGED <<parseVars, cacheVars, rulesVars, runVars, mainConfig, accessOutcome, synthOutcome, cloudFormation,
                   modelId, aiIdx, accumulators, invoked, answered, foundationModels>>

\* analyzeWithAI from its call to the first send
SelectModel ==
    /\ mpc = "models"
    /\ \E listing \in Listings :
        LET chosen == getAvailableModels(userPreferredModel, listing)
        IN  /\ foundationModels' = listing
            /\ modelId' = chosen
            /\ IF chosen = "null"
               THEN /\ IF NoModelResult.threw
                       THEN \* the catch block of main
                            /\ mpc' = "exited"
                            /\ mainExit' = FailureExitCode
                            /\ UNCHANGED <<aiResponse, reports>>
                       ELSE FinishWithAI(NoModelResult.analysis)
                    /\ UNCHANGED <<aiIdx, accumulators>>
               ELSE Advance(1, <<>>, 0, 0)
    /\ UNCHANGED <<parseVars, cacheVars, rulesVars, runVars, mainConfig, accessOutcome, synthOutcome, cloudFormation,
                   staticRuns, issues, optimizations, invoked, answered>>

\* analyzeWithAI from the answer to one send to the next send or the return
InvokeModel ==
    /\ mpc = "invoke"
    /\ \E answer \in ModelAnswers :
        LET resourceId == cloudFormation[aiIdx].key
            aiOutputText == <<"recommendation", resourceId>>
        IN  /\ invoked' = Append(invoked, resourceId)
            /\ CASE answer.kind \in {"rejected", "unparsable body"} ->
                      \* the outer catch block
                      /\ FinishWithAI(EmptyAnalysis)
                      /\ UNCHANGED <<aiIdx, accumulators, answered>>
                 [] answer.kind = "no results" ->
                      \* results[0] throws after the input tokens were added
                      /\ answered' = [answered EXCEPT
                            !.inputTokens = @ + answer.inputTextTokenCount]
                      /\ Advance(aiIdx + 1, allRecommendations,
                                 totalInputTokens + answer.inputTextTokenCount,
                                 totalOutputTokens)
                 [] answer.kind = "ok" ->
                      /\ answered' = [recommendations |->
                                          Append(answered.recommendations, aiOutputText),
                                      inputTokens |->
                                          answered.inputTokens + answer.inputTextTokenCount,
                                      outputTokens |->
                                          answered.outputTokens + answer.tokenCount]
                      /\ Advance(aiIdx + 1, Append(allRecommendations, aiOutputText),
                                 totalInputTokens + answer.inputTextTokenCount,
                                 totalOutputTokens + answer.tokenCount)
    /\ UNCHANGED <<parseVars, cacheVars, rulesVars, runVars, mainConfig, accessOutcome, synthOutcome, cloudFormation,
                   staticRuns, issues, optimizations, modelId, foundationModels>>

NextMain ==
    \/ CheckBedrockAccess
    \/ SynthMain
    \/ AnalyzeStackMain
    \/ SelectModel
    \/ InvokeModel

SpecMain == InitMain /\ [][NextMain]_vars

(***************************************************************************)
(* Properties of analyzeMultipleResources and sendPromptToAI (Spec).       *)
(***************************************************************************)
AiPassOver == rpc = "done" \/ (rpc = "loop" /\ idx > Len(filteredResources))
CallEnded == callState \in {"returned", "threw"}

\* the answer makes this pass of sendPromptToAI return a value
Accepted(a) == a.kind = "ok" /\ a.hasText /\ ~ParseResponse(a.text).threw
\* the send fails with something other than a rate-limit signal
FailedSend(a) == a.kind = "error" \/ (a.kind = "ok" /\ ~Accepted(a))

LeadingThrottles ==
    IF \E i \in 1..Len(attempts) : attempts[i].kind # "throttled"
    THEN (CHOOSE i \in 1..Len(attempts) :
            /\ attempts[i].kind # "throttled"
            /\ \A j \in 1..(i - 1) : attempts[j].kind = "throttled") - 1
    ELSE Len(attempts)

\* C1: a failure of the AI sub-pipeline for one resource makes that resource
\* contribute an empty issues list and nothing else: analyzeMultipleResources
\* never throws, every resource handed to it gets its entry, and no step
\* changes an entry already collected.
C1_FailureIsolated ==
    /\ [](/\ rpc # "crashed"
          /\ \A n \in failed : Has(results, n) /\ Get(results, n) = <<>>
          /\ AiPassOver => Keys(results) = Keys(filteredResources))
    /\ [][/\ Len(results') >= Len(results)
          /\ \A i \in 1..Len(results) : results'[i] = results[i]]_vars

\* a failed resource is followed by one that was analysed with findings
C1_Witness ==
    /\ rpc = "done"
    /\ \E i, j \in 1..Len(results) :
        /\ i < j
        /\ results[i].key \in failed
        /\ results[j].value # <<>>

\* C3: a call of sendPromptToAI never sends more than 3 times; its waits are
\* 1000 ms, 2000 ms, 4000 ms in this order; when the remote answers N < 3
\* sends with HTTP 429 and the next one with an acceptable answer, the call
\* returns after exactly N + 1 sends and N waits; when all 3 sends are
\* rate-limited the call raises an error.
C3_RetryBackoff ==
    /\ Len(attempts) <= 3
    /\ \A i \in 1..Len(waits) : waits[i] = 1000 * (2 ^ (i - 1))
    /\ \A i \in 1..(Len(waits) - 1) : waits[i] < waits[i + 1]
    /\ (rpc \notin {"send", "backoff"} /\ attempts # <<>>) =>
         LET N == LeadingThrottles
         IN  /\ (N < 3 /\ Len(attempts) > N /\ Accepted(attempts[N + 1])) =>
                    /\ callState = "returned"
                    /\ Len(attempts) = N + 1
                    /\ Len(waits) = N
             /\ N = 3 => (callState = "threw" /\ Len(attempts) = 3)

\* two rate-limit answers, then success on the third send
C3_Witness ==
    /\ callState = "returned"
    /\ Len(attempts) = 3
    /\ waits = <<1000, 2000>>

\* C4: a send that fails with anything other than a rate-limit signal is the
\* last send of its call: the call raises at once, with no wait after the
\* failure, whatever number of attempts remains.
C4_NoRetryOnOtherErrors ==
    /\ \A i \in 1..(Len(attempts) - 1) : attempts[i].kind = "throttled"
    /\ (attempts # <<>> /\ FailedSend(attempts[Len(attempts)])) =>
          /\ callState = "threw"
          /\ rpc \notin {"send", "backoff"}
          /\ Len(waits) = Len(attempts) - 1

\* a transport error on the second of three attempts
C4_Witness ==
    /\ callState = "threw"
    /\ Len(attempts) = 2
    /\ attempts[2].kind = "error"
    /\ waits = <<1000>>

AiPassRan == mpc = "exited" /\ modelId \notin {"none", "null"}

EligibleIds == {cloudFormation[i].key : i \in {j \in 1..Len(cloudFormation) : Eligible(j)}}

InvokedIds == {invoked[i] : i \in 1..Len(invoked)}

\* C2: every report written by main has status 'failed' and the process exits
\* with code 2 exactly when the rule-based issues list is non-empty, and has
\* status 'passed' with exit code 0 otherwise, whatever the recommendations,
\* the token usage, the AI failures and the optimizations are.
C2_OutcomeFromIssuesOnly ==
    \A i \in 1..Len(reports) :
        /\ reports[i].issues = issues
        /\ (reports[i].status = "failed") <=> (issues # <<>>)
        /\ (reports[i].status = "passed") <=> (issues = <<>>)
        /\ (mainExit = 2) <=> (issues # <<>>)
        /\ (mainExit = 0) <=> (issues = <<>>)

\* a run without issues that reports optimizations, a recommendation and
\* token usage, and passes
C2_Witness ==
    /\ mpc = "exited"
    /\ Len(reports) = 1
    /\ issues = <<>>
    /\ reports[1].optimizations # <<>>
    /\ reports[1].recommendations # <<>>
    /\ reports[1].tokenUsage.inputTokens > 0
    /\ reports[1].status = "passed"
    /\ mainExit = 0

\* C6: when analyzeWithAI has returned after selecting a model, and no
\* resource was too large to send, every resource the filter lets through was
\* sent to the model, and the recommendations and token counts of all the
\* answered sends are returned, also when a send was rejected or its response
\* body did not parse.
C6_FailureAbortsOneResource ==
    (/\ AiPassRan
     /\ \A i \in 1..Len(cloudFormation) :
            Eligible(i) => ~TruncateThrows(cloudFormation[i].value, MAX_RESOURCE_CHAR_LENGTH))
    => /\ InvokedIds = EligibleIds
       /\ aiResponse = answered

\* C7: main exits with the failure code 1 only when the synth step failed.
C7_OnlySynthFailureIsFatal ==
    (mpc = "exited" /\ mainExit = FailureExitCode) => SynthFailed(synthOutcome) /\ synthOutcome # "none"

\* C8: once the synth step of main has failed, the process has exited with
\* code 1, no rule was evaluated, no model was listed or invoked and no
\* report was written; a run that writes a report exits with 0 or 2.
C8_SynthFailureAborts ==
    /\ (synthOutcome \in SynthOutcomes \ {"ok"}) =>
            /\ mpc = "exited"
            /\ mainExit = 1
            /\ staticRuns = 0
            /\ modelId = "none"
            /\ invoked = <<>>
            /\ reports = <<>>
    /\ reports # <<>> => mainExit \in {0, 2}

\* the synth output does not parse and the process has exited with code 1
C8_Witness ==
    /\ synthOutcome = "output unparsable"
    /\ accessOutcome = "ok"
    /\ mpc = "exited"
    /\ mainExit = 1

\* the models ListFoundationModels reported; none when the request failed
Available == IF foundationModels.ok THEN foundationModels.models ELSE {}

PreferredAvailable == userPreferredModel # "" /\ userPreferredModel \in Available

\* C11: the model chosen by getAvailableModels is the caller's preferred model
\* when that is non-empty and available; otherwise it is the earliest entry
\* of the preference list that is available; it is always null or an
\* available model, and it is null exactly when neither the preferred model
\* nor any entry of the list is available (the failed listing included).
C11_PreferredThenListOrder ==
    modelId # "none" =>
        /\ PreferredAvailable => modelId = userPreferredModel
        /\ (~PreferredAvailable) =>
              \A i \in 1..Len(preferredModels) :
                  (/\ preferredModels[i] \in Available
                   /\ \A j \in 1..(i - 1) : preferredModels[j] \notin Available)
                  => modelId = preferredModels[i]
        /\ modelId = "null" \/ modelId \in Available
        /\ (modelId = "null") <=>
              (/\ ~PreferredAvailable
               /\ \A i \in 1..Len(preferredModels) : preferredModels[i] \notin Available)

\* the preferred model is chosen although an earlier entry of the preference
\* list is available too
C11_Witness ==
    /\ userPreferredModel = "amazon.titan-text-express-v1"
    /\ modelId = userPreferredModel
    /\ "amazon.nova-pro-v1:0" \in Available

\* C12: when getAvailableModels found no model, no request was sent to a
\* model, analyzeWithAI returned no recommendation and zero tokens, and the
\* run completed with the report the rule-based pass alone determines: the
\* issues and optimizations of analyzeStack and the status main derives from
\* the issues, as with AI disabled.
C12_NoModelDegrades ==
    modelId = "null" =>
        /\ invoked = <<>>
        /\ aiResponse = [recommendations |-> <<>>, inputTokens |-> 0, outputTokens |-> 0]
        /\ mpc = "exited"
        /\ Len(reports) = 1
        /\ reports[1].issues = analyzeStack(cloudFormation).issues
        /\ reports[1].optimizations = analyzeStack(cloudFormation).optimizations
        /\ reports[1].recommendations = <<>>
        /\ reports[1].status =
              (IF analyzeStack(cloudFormation).issues # <<>> THEN "failed" ELSE "passed")
        /\ mainExit = (IF analyzeStack(cloudFormation).issues # <<>> THEN 2 ELSE 0)
        /\ reports[1].tokenUsage.inputTokens = 0
        /\ reports[1].tokenUsage.outputTokens = 0

\* no model is listed for a template with an issue: the report still fails
C12_Witness ==
    /\ modelId = "null"
    /\ foundationModels.ok
    /\ mpc = "exited"
    /\ Len(reports) = 1
    /\ reports[1].issues # <<>>
    /\ reports[1].status = "failed"

\* the template is one bare bucket and one function with MemorySize 2048
BucketAndBigFunction ==
    /\ Len(cloudFormation) = 2
    /\ {cloudFormation[1].value, cloudFormation[2].value} = {BucketBare, FunctionBig}

\* C18: for one bucket without versioning and encryption and one function
\* with memory size 2048, the report of main holds at least two rule-based
\* findings and has status 'failed'.
C18_BucketAndFunctionFail ==
    (mpc = "exited" /\ Len(reports) = 1 /\ BucketAndBigFunction) =>
        /\ Len(reports[1].issues) + Len(reports[1].optimizations) >= 2
        /\ reports[1].status = "failed"

(***************************************************************************)
(* Properties of the report of runAnalysis (Spec).                         *)
(***************************************************************************)
\* C9: a run of runAnalysis never writes the report twice and never before
\* the AI pass, and a finished run that obtained the template has written it
\* exactly once.
C9_ReportWrittenOnceAfterBothPasses ==
    /\ Len(writes) <= 1
    /\ \A i \in 1..Len(writes) : writes[i].afterAI
    /\ (rpc \in {"done", "exited"} /\ exitCode # 1) => Len(writes) = 1

(***************************************************************************)
(* Properties of the response parsing (SpecParse).                         *)
(***************************************************************************)
\* the interior of the first fenced block without its language tag
FenceInterior(text) ==
    LET inner == Trim(Split(text, FENCE)[2])
    IN  IF inner # <<>> /\ Head(inner) = TAG THEN Trim(Tail(inner)) ELSE inner

\* the substring from the first '{' to the last '}'
BraceSpan(text) ==
    IF IndexOf(text, "{") = 0 \/ LastIndexOf(text, "}") < IndexOf(text, "{") THEN <<>>
    ELSE SubSeq(text, IndexOf(text, "{"), LastIndexOf(text, "}"))

Recovered(text) ==
    LET candidate == IF Len(Split(text, FENCE)) >= 3 THEN FenceInterior(text)
                     ELSE BraceSpan(text)
    IN  IF JsonParses(candidate) /\ IsObject(JsonValue(candidate))
        THEN [threw |-> FALSE, value |-> JsonValue(candidate)]
        ELSE [threw |-> TRUE, value |-> UNDEFINED]

\* C10: the parsing of sendPromptToAI returns the JSON object embedded in the
\* text: the parsed interior of the fence when there is one (with or without
\* a language tag), otherwise the parsed substring from the first '{' to the
\* last '}'; a text with no recoverable JSON object raises an error.
C10_RecoversEmbeddedJson ==
    ppc = "parsed" => completeMessage = Recovered(rawText)

(***************************************************************************)
(* Properties of analyzeTemplate and its rules (SpecRules).                *)
(***************************************************************************)
AllRules == UNION {{serviceChecks[i].value[j] : j \in 1..Len(serviceChecks[i].value)} :
                     i \in 1..Len(serviceChecks)}

\* the catalog keys
Categories == {serviceChecks[i].key : i \in 1..Len(serviceChecks)}

CategoryOf(rule) ==
    CHOOSE c \in Categories :
        \E j \in 1..Len(Get(serviceChecks, c)) : Get(serviceChecks, c)[j] = rule

\* how often the rule has run so far
TimesRun(rule) == Cardinality({k \in 1..(ruleIdx - 1) : ruleChecks[k] = rule})

RulesCallOver == qpc \in {"returned", "exited"}

\* C13: when analyzeTemplate has ended without an error, every rule of the
\* catalog has run once if the list of category names was empty, and
\* otherwise every rule of a named category has run exactly once, no rule of
\* an unnamed category has run and nothing that is not a rule has run; and
\* when it ended with an error, the error came from a rule of the catalog,
\* never from a name that is not a catalog key.
C13_NamedCategoriesRunOnce ==
    /\ RulesCallOver =>
          /\ \A k \in 1..(ruleIdx - 1) : ruleChecks[k] \in AllRules
          /\ \A rule \in AllRules :
                TimesRun(rule) =
                    (IF \/ ruleServices = <<>>
                        \/ \E i \in 1..Len(ruleServices) : ruleServices[i] = CategoryOf(rule)
                     THEN 1 ELSE 0)
    /\ qpc = "threw" => ruleChecks[ruleIdx - 1] \in AllRules

\* the rules of the named categories, each once, in the order of the catalog
CatalogOrder(services) ==
    Flat([i \in 1..Len(serviceChecks) |->
            IF services = <<>> \/ serviceChecks[i].key \in Range(services)
            THEN serviceChecks[i].value ELSE <<>>])

\* C14: when analyzeTemplate has ended without an error for a list of catalog
\* keys, the result has the entries, and each entry the findings in the
\* order, that running the rules of the named categories in catalog order
\* gives, whatever the order and repetition of the names in the list.
C14_FindingsInCatalogOrder ==
    (RulesCallOver /\ \A i \in 1..Len(ruleServices) : ruleServices[i] \in Categories) =>
        LET expected == RunChecks(CatalogOrder(ruleServices), ruleTemplate, <<>>)
        IN  /\ Range(Keys(ruleFindings)) = Range(Keys(expected))
            /\ \A k \in Range(Keys(expected)) : Get(ruleFindings, k) = Get(expected, k)

\* C15: no rule of the catalog throws, whichever inspected properties the
\* resources omit: analyzeTemplate never ends with an error raised by a rule.
C15_NoRuleThrows ==
    ~(qpc = "threw" /\ ruleChecks[ruleIdx - 1] \in AllRules)

\* the findings the result so far holds for the resource
FoundFor(resourceName) ==
    IF Has(ruleFindings, resourceName) THEN Get(ruleFindings, resourceName) ELSE <<>>

Emits(resourceName, issue) ==
    \E j \in 1..Len(FoundFor(resourceName)) : FoundFor(resourceName)[j].issue = issue

\* checkS3Buckets is the one check that has run
OnlyS3BucketsRan == qpc = "checks" /\ ruleIdx = 2 /\ ruleChecks[1] = "checkS3Buckets"

\* C16: after checkS3Buckets alone has run, a resource has the finding
\* 'lacks encryption' exactly when it is a bucket without BucketEncryption,
\* the finding 'no versioning enabled' exactly when it is a bucket without
\* VersioningConfiguration, and no finding at all when it is not a bucket.
C16_S3FindingsIffAbsent ==
    OnlyS3BucketsRan =>
        \A i \in 1..Len(ruleTemplate) :
            LET resourceName == ruleTemplate[i].key
                resource == ruleTemplate[i].value
                isBucket == resource.Type = <<"AWS", "S3", "Bucket">>
            IN  /\ Emits(resourceName, "S3 Bucket lacks encryption.")
                     <=> (isBucket /\ ~Has(resource.Properties, "BucketEncryption"))
                /\ Emits(resourceName, "S3 Bucket has no versioning enabled.")
                     <=> (isBucket /\ ~Has(resource.Properties, "VersioningConfiguration"))
                /\ ~isBucket => FoundFor(resourceName) = <<>>

\* a bare bucket has both findings, a bucket with both properties and a
\* function have none
C16_Witness ==
    /\ OnlyS3BucketsRan
    /\ \E i \in 1..Len(ruleTemplate) :
          /\ ruleTemplate[i].value = BucketBare
          /\ Emits(ruleTemplate[i].key, "S3 Bucket lacks encryption.")
          /\ Emits(ruleTemplate[i].key, "S3 Bucket has no versioning enabled.")
    /\ \E i \in 1..Len(ruleTemplate) :
          /\ ruleTemplate[i].value \in {BucketHardened, FunctionBig}
          /\ FoundFor(ruleTemplate[i].key) = <<>>

\* C17: every key of the result analyzeTemplate returns is the id of a
\* resource of the template and maps to a non-empty list of issues.
C17_OnlyResourcesWithFindings ==
    qpc = "returned" =>
        \A k \in Range(Keys(ruleFindings)) :
            /\ k \in Range(Keys(ruleTemplate))
            /\ Get(ruleFindings, k) # <<>>

\* C19 (rule-based pass of analyzeTemplate): for an empty resource set no
\* finding is emitted.
C19_EmptySetNoFindings ==
    (ruleTemplate = <<>> /\ RulesCallOver) =>
        \A k \in Range(Keys(ruleFindings)) : Get(ruleFindings, k) = <<>>

(***************************************************************************)
(* Properties of the cache across modes (SpecCache).                       *)
(***************************************************************************)
\* C20: a call of analyzeSingleResource is answered from the cache only with
\* a result that was computed for the same set of modes.
C20_CacheScopedPerModeSet ==
    \A k \in 1..Len(cacheCalls) :
        cacheCalls[k].fromCache => cacheCalls[k].computedFor = cacheCalls[k].modes

(***************************************************************************)
(* Properties of truncateResource within analyzeWithAI (SpecMain).         *)
(***************************************************************************)
\* C21: a resource whose serialization is longer than the character budget
\* is truncated and still sent: once the loop of analyzeWithAI has reached
\* such a resource, the request for it is being sent or has been sent.
C21_OversizeResourceIsSent ==
    \A j \in 1..Len(cloudFormation) :
        (/\ modelId \notin {"none", "null"}
         /\ aiIdx >= j
         /\ Eligible(j)
         /\ StringifyLength(cloudFormation[j].value) > MAX_RESOURCE_CHAR_LENGTH)
        => \/ (mpc = "invoke" /\ aiIdx = j)
           \/ cloudFormation[j].key \in InvokedIds

(***************************************************************************)
(* Properties of the merged report of runAnalysis (Spec).                  *)
(***************************************************************************)
\* the position of the resource id in the template
DeclaredAt(resourceName) == CHOOSE i \in 1..Len(template) : template[i].key = resourceName

\* C22: the per-resource entries of the merged report written by runAnalysis
\* appear in the declaration order of the resources in the template.
C22_ReportInDeclarationOrder ==
    \A w \in 1..Len(writes) :
        writes[w].afterAI =>
            LET entries == writes[w].content
            IN  \A i, j \in 1..Len(entries) :
                    (/\ i < j
                     /\ Has(template, entries[i].key)
                     /\ Has(template, entries[j].key))
                    => DeclaredAt(entries[i].key) < DeclaredAt(entries[j].key)

(***************************************************************************)
(* Properties of the token totals of main (SpecMain).                      *)
(***************************************************************************)
\* C23: the inputTokens and outputTokens of the report of a run equal the
\* sums of the token counts the model reported for the invocations made in
\* that run, also when a later invocation failed (runs in which no resource
\* was too large to send).
C23_TokenTotalsAreSums ==
    (/\ AiPassRan
     /\ \A i \in 1..Len(cloudFormation) :
            Eligible(i) => ~TruncateThrows(cloudFormation[i].value, MAX_RESOURCE_CHAR_LENGTH))
    => \A i \in 1..Len(reports) :
          /\ reports[i].hasTokenUsage
          /\ reports[i].tokenUsage.inputTokens = answered.inputTokens
          /\ reports[i].tokenUsage.outputTokens = answered.outputTokens

(***************************************************************************)
(* Properties of the scheduling of the AI requests (Spec).                 *)
(***************************************************************************)
\* the resources whose analyzeSingleResource call is waiting for the remote
\* service: the call has begun and has not contributed its entry yet
Outstanding ==
    {j \in 1..Len(filteredResources) :
        /\ j <= idx
        /\ rpc \in {"send", "backoff"}
        /\ ~Has(results, filteredResources[j].key)}

\* C24: at every moment of the AI pass at most CONCURRENCY_LIMIT requests are
\* outstanding, and in analyzeMultipleResources a request is sent, and a call
\* of analyzeSingleResource begins, only when every earlier resource of the
\* loop has contributed its entry, all its sends and backoff waits being over.
C24_RequestsOneAtATime ==
    /\ [](Cardinality(Outstanding) <= CONCURRENCY_LIMIT)
    /\ [][(sendsFor' # sendsFor \/ callsFor' # callsFor) =>
            \A j \in 1..(idx - 1) : Has(results, filteredResources[j].key)]_vars

\* the request for the second resource goes out after the first resource was
\* rate-limited, waited and was sent again
C24_Witness ==
    /\ rpc = "send"
    /\ idx = 2
    /\ filteredResources[1].value # filteredResources[2].value
    /\ sendsFor[generateResourceHash(filteredResources[1].value)] >= 2
    /\ Has(results, filteredResources[1].key)
    /\ Cardinality(Outstanding) = 1

\* the issues the object holds for the key; none when it has no such entry
IssuesOf(obj, k) == IF Has(obj, k) THEN Get(obj, k) ELSE <<>>

\* C25: in the report runAnalysis writes after the AI pass, every resource's
\* issue list is its rule-based findings in their order followed by its AI
\* findings in their order, and the report has an entry exactly for the keys
\* of the rule-based findings and of the AI results.
C25_MergeKeepsRuleFindings ==
    rpc = "done" =>
        LET merged == writes[Len(writes)].content
            ruleBased == TemplateFindings(template, selectedServices.list)
        IN  /\ Range(Keys(merged)) = Range(Keys(ruleBased)) \cup Range(Keys(results))
            /\ \A k \in Range(Keys(merged)) :
                  Get(merged, k) = IssuesOf(ruleBased, k) \o IssuesOf(results, k)

(***************************************************************************)
(* SpecFair: runAnalysis of src/index.ts on all resources of the template *)
(* when every request to the remote service is answered, every backoff     *)
(* timer fires and the loop of analyzeMultipleResources is resumed after   *)
(* each await.                                                             *)
(***************************************************************************)
InitFair ==
    /\ Init
    /\ variant = "index"
    /\ ~selectedServices.given

SpecFair ==
    /\ InitFair
    /\ [][Next]_vars
    /\ WF_vars(AnalyzeNext)
    /\ WF_vars(Send)
    /\ WF_vars(Backoff)

\* analyzeMultipleResources has been called and has not returned
AiPassRunning == rpc \in {"send", "backoff"} \/ (rpc = "loop" /\ idx <= Len(filteredResources))

\* C26: a call of analyzeMultipleResources eventually returns, and when it
\* does its result has exactly one entry for every input resource, in the
\* order of the input, with no issues for a resource whose analysis failed.
C26_AiPassReturnsOneEntryEach ==
    AiPassRunning ~>
        (/\ rpc = "loop"
         /\ idx > Len(filteredResources)
         /\ Keys(results) = Keys(filteredResources)
         /\ \A n \in failed : Get(results, n) = <<>>)

\* the call has returned for two resources, the first of which failed after
\* three rate-limit answers
C26_Witness ==
    /\ rpc = "loop"
    /\ idx > Len(filteredResources)
    /\ Len(filteredResources) = 2
    /\ filteredResources[1].key \in failed
    /\ sendsFor[generateResourceHash(filteredResources[1].value)] >= 3
    /\ Len(results) = 2

(***************************************************************************)
(* Properties of the findings and the cache of the AI module (Spec).       *)
(***************************************************************************)
\* C27: every finding that analyzeMultipleResources files under a resource
\* id, and that names a resource at all, names that id, also for a resource
\* answered from the cache entry of an identical declaration.
C27_FindingNamesItsResource ==
    \A i \in 1..Len(results) :
        \A k \in 1..Len(results[i].value) :
            results[i].value[k].resource # "undefined"
                => results[i].value[k].resource = results[i].key

\* C28: the cache changes only in the step in which an analysis succeeds, and
\* then by one new entry for the content analysed, holding the findings
\* returned, all earlier entries staying as they are; a step in which an
\* analysis fails leaves the cache as it was; and a call for content that has
\* no entry goes to the remote service.
C28_CacheChangesOnlyOnSuccess ==
    /\ [](\A h \in Hashes : CacheHas(CACHE, h) <=> h \in okFor)
    /\ [][CACHE' # CACHE =>
            LET resourceHash == generateResourceHash(CurrentResource)
            IN  /\ rpc = "send"
                /\ callState' = "returned"
                /\ CurrentName \notin failed'
                /\ ~CacheHas(CACHE, resourceHash)
                /\ CACHE' = Append(CACHE, [key |-> resourceHash,
                                           value |-> Get(results', CurrentName)])]_vars
    /\ [][failed' # failed => CACHE' = CACHE]_vars
    /\ [][\A h \in Hashes :
            (callsFor'[h] # callsFor[h] /\ ~CacheHas(CACHE, h)) => rpc' = "send"]_vars

\* the analysis of a resource failed, and the later call for the identical
\* declaration went to the remote service and stored its result
C28_Witness ==
    /\ Len(filteredResources) = 2
    /\ idx = 3
    /\ filteredResources[1].value = filteredResources[2].value
    /\ filteredResources[1].key \in failed
    /\ filteredResources[2].key \notin failed \cup hits
    /\ CacheHas(CACHE, generateResourceHash(filteredResources[2].value))
    /\ Get(CACHE, generateResourceHash(filteredResources[2].value)) # <<>>

(***************************************************************************)
(* Properties of the two passes of runAnalysis (Spec).                     *)
(***************************************************************************)
\* the resource types the rule looks at
ExaminedTypes(check) ==
    CASE check \in {"checkS3Buckets", "checkS3IntelligentTiering"} -> {S3Bucket}
      [] check \in {"checkLambdaEnvironmentVariables", "checkLambdaMemory"} -> {LambdaFunction}
      [] check = "checkIamPolicies" -> {<<"AWS", "IAM", "Policy">>, <<"AWS", "IAM", "Role">>}
      [] check = "checkCloudTrailLogging" -> {CloudTrailTrail}
      [] check = "constructor" -> {}
      [] OTHER -> {GuardedRule(check).type}

\* the resources of the template that a rule of the named categories examines
ExaminedByRules ==
    {template[i].key :
        i \in {j \in 1..Len(template) :
                 \E c \in Range(SelectedChecks(selectedServices.list)) :
                     template[j].value.Type \in ExaminedTypes(c)}}

\* C29: when services are selected, the resources handed to the AI pass are
\* exactly the resources that the rules of the same-named categories examine.
C29_BothPassesCoverSameResources ==
    (selectedServices.given /\ rpc \in {"loop", "send", "backoff", "done"}) =>
        Range(Keys(filteredResources)) = ExaminedByRules

\* the rule-based pass has a finding for a resource of the template
RuleFindingForSomeResource ==
    \E i \in 1..Len(template) :
        IssuesOf(TemplateFindings(template, selectedServices.list), template[i].key) # <<>>

\* C30: in a run that obtained the template and whose rule-based pass has no
\* finding for any resource, the process has exited with code 0 once the
\* rule-based pass is over, no request was sent to the model and no report
\* was written.
C30_NoFindingsExitBeforeAI ==
    (/\ rpc \notin {"start", "static"}
     /\ ~(rpc = "exited" /\ exitCode = 1)
     /\ ~RuleFindingForSomeResource)
    => /\ rpc = "exited"
       /\ exitCode = 0
       /\ \A h \in Hashes : sendsFor[h] = 0
       /\ writes = <<>>

====
